---- MODULE Spec2Model ----
(***************************************************************************)
(* Model of the build-and-deploy pipeline of src/Devopsagent.py            *)
(* (DevOpsAgent.run and the stages it calls), with the Docker engine, the  *)
(* generation service, the project directory and the host environment as   *)
(* the pipeline's surroundings.                                            *)
(*                                                                         *)
(* Texts (messages, file contents) are sequences of tokens; a message is   *)
(* built by concatenation exactly where the code builds it with an         *)
(* f-string.  An optional value (os.getenv) is a record [set, val].        *)
(***************************************************************************)
EXTENDS Integers, Sequences, FiniteSets, TLC

(***************************************************************************)
(* Bounds of the model.                                                    *)
(***************************************************************************)
\* pipeline runs each caller performs, one after another
MaxRuns == 2
\* events the build engine emits at most on one build stream
MaxChunks == 3
\* host ports the engine can assign to a published container port
NPorts == 2
\* characters of a text of the generation service fed to the sanitising
MaxText == 7
\* candidates find_free_port tries at most (max_retries of the bounded calls)
MaxRetries == 3

(***************************************************************************)
(* Program constants.                                                      *)
(***************************************************************************)
\* range(50): lines read from each recognized file
LineCap == 50
Procs == {1, 2}

critical_files == {"requirements.txt", "package.json", "app.py", "main.py"}

\* the names deploy_container reads from the host environment, in dict order
AllowList ==
    << "TAVILY_API_KEY", "OPENAI_API_KEY", "AZURE_API_KEY",
       "AZURE_ENDPOINT", "AZURE_OPENAI_API_VERSION", "AZURE_DEPLOYMENT" >>

\* host variables the program reads elsewhere (__init__) but does not forward
OtherEnvNames == {"AZURE_VERSION", "AZURE_END_POINT"}

Range(s) == {s[i] : i \in DOMAIN s}

EnvNames == Range(AllowList) \cup OtherEnvNames

EnvValues == {"", "v"}

\* the text ensure_entrypoint writes (one token stands for the fixed script)
entrypoint_content == << "docker_entrypoint.py script: app.run(host='0.0.0.0', port=5000)" >>

NoFile == [exists |-> FALSE, content |-> << >>]

File(text) == [exists |-> TRUE, content |-> text]

\* os.path.getsize
getsize(f) == Len(f.content)


(***************************************************************************)
(* Context Scanner: DevOpsAgent._get_project_context.                      *)
(* A project file is [name, nlines, readable, utf8]; its lines are         *)
(* 1..nlines.  The tree is the sequence of files in os.walk order.         *)
(***************************************************************************)
SeqsUpTo(S, n) == UNION { [1..k -> S] : k \in 0..n }

Lines(f) == [i \in 1..f.nlines |-> i]

\* "".join([next(f) for _ in range(50)]): LineCap calls of next(f); the call
\* that finds the file exhausted raises StopIteration out of the comprehension
JoinNext50(lines) ==
    IF \E k \in 1..LineCap : k > Len(lines)
    THEN [exc |-> "StopIteration", text |-> << >>]
    ELSE [exc |-> "", text |-> [k \in 1..LineCap |-> lines[k]]]

\* with open(path, 'r', encoding=enc) as f: file_content = ...
ReadExcerpt(f, enc) ==
    IF ~f.readable THEN [exc |-> "OSError", text |-> << >>]
    ELSE IF enc = "utf-8" /\ ~f.utf8 THEN [exc |-> "UnicodeDecodeError", text |-> << >>]
    ELSE JoinNext50(Lines(f))

\* lines 46-57: UTF-8 first, Latin-1 on UnicodeDecodeError; any other
\* exception is caught by the outer handler and the file is skipped
ReadCritical(f) ==
    LET first == ReadExcerpt(f, "utf-8")
    IN  IF first.exc = "UnicodeDecodeError" THEN ReadExcerpt(f, "latin-1") ELSE first

RECURSIVE ScanFrom(_, _)
ScanFrom(files, context) ==
    IF files = << >> THEN context
    ELSE LET f == Head(files)
             r == ReadCritical(f)
         IN  IF f.name \in critical_files /\ r.exc = ""
             THEN ScanFrom(Tail(files), Append(context, [file |-> f.name, excerpt |-> r.text]))
             ELSE ScanFrom(Tail(files), context)

get_project_context(files) == ScanFrom(files, << >>)

(***************************************************************************)
(* Container environment: deploy_container lines 190-198.                  *)
(* The host environment is a function from the names that are set to their *)
(* values.                                                                 *)
(***************************************************************************)
HostEnvs == UNION { [S -> EnvValues] : S \in SUBSET EnvNames }

None == [set |-> FALSE, val |-> ""]

getenv(env, k) == IF k \in DOMAIN env THEN [set |-> TRUE, val |-> env[k]] ELSE None

env_vars_Unfiltered(env) ==
    [k \in Range(AllowList) |-> getenv(env, k).val]

\* env_vars = {k: v for k, v in env_vars.items() if v is not None}
env_vars(env) ==
    LET raw == [k \in Range(AllowList) |-> getenv(env, k)]
    IN  [k \in {n \in DOMAIN raw : raw[n] # None} |-> raw[k].val]

(***************************************************************************)
(* Build Definition Writer: the sanitising of the generated text, line 121.*)
(* A text is a sequence of characters; the word "dockerfile" is one token. *)
(***************************************************************************)
\* the backtick character
Backquote == "bq"

Fence == << Backquote, Backquote, Backquote >>

FenceDockerfile == Fence \o << "dockerfile" >>

Whitespace == {" ", "\n"}

\* str.replace(pat, ""): leftmost non-overlapping occurrences
RECURSIVE Remove(_, _)
Remove(s, pat) ==
    IF Len(s) < Len(pat) THEN s
    ELSE IF SubSeq(s, 1, Len(pat)) = pat
         THEN Remove(SubSeq(s, Len(pat) + 1, Len(s)), pat)
         ELSE << Head(s) >> \o Remove(Tail(s), pat)

RECURSIVE LStrip(_)
LStrip(s) == IF s # << >> /\ Head(s) \in Whitespace THEN LStrip(Tail(s)) ELSE s

RECURSIVE RStrip(_)
RStrip(s) ==
    IF s # << >> /\ s[Len(s)] \in Whitespace THEN RStrip(SubSeq(s, 1, Len(s) - 1)) ELSE s

strip(s) == RStrip(LStrip(s))

Sanitize_TaggedOnly(text) == strip(Remove(text, FenceDockerfile))

\* response.content.replace(FenceDockerfile, "").replace(Fence, "").strip()
Sanitize(text) == strip(Remove(Remove(text, FenceDockerfile), Fence))

(***************************************************************************)
(* Image Builder: build events and the messages of deploy_container / run. *)
(* A build event is the decoded JSON object: a function from its keys.     *)
(***************************************************************************)
ErrMsgs == {"no such file", "exit code 1"}

Chunks ==
    { [stream |-> "Step"] , [aux |-> "sha256"] }
        \cup { [error |-> m, errorDetail |-> m] : m \in ErrMsgs }

Streams == SeqsUpTo(Chunks, MaxChunks)

\* the if / elif / else of lines 158-165
ChunkKind_ErrorLogged(chunk) ==
    IF "stream" \in DOMAIN chunk THEN "stream" ELSE "raw"

ChunkKind(chunk) ==
    IF "stream" \in DOMAIN chunk THEN "stream"
    ELSE IF "error" \in DOMAIN chunk THEN "error"
    ELSE "raw"

\* f"Build Error: {chunk['error']}"
BuildError(chunk) == << "Build Error: ", chunk.error >>

\* f"Docker Build Failed: {str(build_err)}"
DockerBuildFailed(cause) == << "Docker Build Failed: " >> \o cause

\* f"(x) Deployment Failed: {str(e)}"
DeploymentFailed(cause) == << "Deployment Failed: " >> \o cause

\* the string returned at line 209: no f-prefix, the text holds ${host_port} as written
Deployed == << "Deployed! Access at: http://localhost:", "${host_port}" >>

\* f"Error: {str(e)}"
RunError(cause) == << "Error: " >> \o cause

\* the string generate_dockerfile returns
F1 == << "Dockerfile (Using docker_entrypoint.py)" >>


(***************************************************************************)
(* State.                                                                  *)
(***************************************************************************)
VARIABLES
    \* the surroundings, shared by every run
    tree,               \* the project directory's files, in os.walk order
    host_env,           \* os.environ of the host process
    entrypoint_file,    \* <repo>/docker_entrypoint.py
    dockerfile_file,    \* <repo>/Dockerfile
    image,              \* the engine holds an image tagged image_tag
    containers,         \* the engine's containers: [id, name, status, port, env, by]
    next_id,            \* the id the engine gives the next container
    engine_rejects_dup, \* the engine refuses a second container of the same name
    runners,            \* the callers that invoke run()
    \* one caller's run of DevOpsAgent.run
    pc,                 \* where the run stands
    runs,               \* runs the caller has started
    context,            \* run: context
    result,             \* the list run() returned
    stream,             \* deploy_container: build_generator, the events the engine emits
    pos,                \* events of build_generator consumed
    build_success,      \* deploy_container: build_success
    old,                \* deploy_container: old (the container found, as a set of ids)
    env_passed,         \* deploy_container: env_vars
    \* observation of the run
    hist,               \* the stages entered, in order
    calls,              \* external calls made, by name
    fault,              \* the errors raised in the run: [stage, cause]
    used,               \* the tags and names handed to the engine, by operation
    \* find_free_port and the host's ports
    bound,              \* the ports other processes hold on the wildcard address
    sockets,            \* the test sockets that are open: [id, port, by]
    ffp,                \* one caller's call of find_free_port
    \* the write of the build definition on its own
    response,           \* generate_dockerfile: response.content
    \* auto_devops.run_devops_pipeline
    auto                \* the call of run_devops_pipeline and the directory it works in

shared == << tree, host_env, entrypoint_file, dockerfile_file, image, containers,
             next_id, engine_rejects_dup, runners >>

locals == << pc, runs, context, result, stream, pos, build_success, old, env_passed >>

observed == << hist, calls, fault, used >>

portvars == << bound, sockets, ffp >>

\* the state of the functions that are called on their own
direct == << portvars, response, auto >>

vars == << shared, locals, observed, direct >>

\* self.project_name and the lowercased tag of line 141
project_name == "MyApp"

lower(name) == IF name = "MyApp" THEN "myapp" ELSE name

image_tag_NotLowered == project_name

image_tag == lower(project_name)

\* the host ports the engine assigns from when asked for port 0 (line 204)
HostPorts == 32768 .. (32767 + NPorts)

CallNames ==
    { "write_entrypoint", "os_walk", "llm_invoke", "write_dockerfile", "from_env", "api_build",
      "images_get", "containers_get", "stop", "remove", "containers_run", "print_warning" }

NoCalls == [c \in CallNames |-> 0]

\* the arguments of the engine operations that carry the identity: tag= of
\* api.build (line 150), images.get (173), containers.get (181), and the
\* image and name= of containers.run (201, 203)
TagOps == {"build_tag", "images_get", "containers_get", "run_image", "run_name"}

NoTags == [op \in TagOps |-> {}]

Use(p, op, tag) == used' = [used EXCEPT ![p][op] = @ \cup {tag}]

\* the stage of the coordinator each position of the run belongs to
StageOrder ==
    << "WriteEntrypoint", "ScanContext", "WriteBuildDefinition", "BuildImage", "ReplaceContainer" >>

\* a container that existed before the first run, and the runs' own
PriorRun == << 0, 0 >>

Container(id, status, port, env, by) ==
    [id |-> id, name |-> image_tag, status |-> status, port |-> port, env |-> env, by |-> by]

Named(cs, name) == {c \in cs : c.name = name}

\* the project trees of the pipeline specification: the documented scenario
\* (requirements.txt of 12 lines, app.py of 5), and a tree with an unreadable
\* file, a file whose name is not recognized, a file that is not UTF-8, a
\* short file and a file longer than the excerpt
ProjectFile(name, nlines, readable, utf8) ==
    [name |-> name, nlines |-> nlines, readable |-> readable, utf8 |-> utf8]

TreeSamples ==
    { << ProjectFile("requirements.txt", 12, TRUE, TRUE),
         ProjectFile("app.py", 5, TRUE, TRUE) >>,
      << ProjectFile("requirements.txt", 3, FALSE, TRUE),
         ProjectFile("README.md", LineCap, TRUE, TRUE),
         ProjectFile("main.py", LineCap, TRUE, FALSE),
         ProjectFile("package.json", 20, TRUE, TRUE),
         ProjectFile("app.py", LineCap + 1, TRUE, TRUE) >> }

HostEnvSamples ==
    { [k \in {"AZURE_API_KEY", "AZURE_DEPLOYMENT", "AZURE_VERSION"} |-> "v"] }

\* texts the generation service returns: a fenced build definition and a bare one
Responses ==
    { FenceDockerfile \o << "\n", "FROM python:3.9-slim", "\n" >> \o Fence,
      << "FROM python:3.9-slim" >> }

InitLocals ==
    /\ pc = [p \in Procs |-> "idle"]
    /\ runs = [p \in Procs |-> 0]
    /\ context = [p \in Procs |-> << >>]
    /\ result = [p \in Procs |-> << >>]
    /\ stream = [p \in Procs |-> << >>]
    /\ pos = [p \in Procs |-> 0]
    /\ build_success = [p \in Procs |-> FALSE]
    /\ old = [p \in Procs |-> {}]
    /\ env_passed = [p \in Procs |-> << >>]
    /\ hist = [p \in Procs |-> << >>]
    /\ calls = [p \in Procs |-> NoCalls]
    /\ fault = [p \in Procs |-> << >>]
    /\ used = [p \in Procs |-> NoTags]

\* no call of run_devops_pipeline: it belongs to another script (auto_devops.py)
NoPipeline ==
    [pc |-> "idle", files |-> {}, dockerfile_content |-> << >>, dockerfile |-> NoFile,
     built |-> FALSE, workflow |-> NoFile, steps |-> << >>, build_raised |-> FALSE,
     raised |-> << >>]

\* no call of find_free_port: run() does not call it (line 137 is a comment)
NoCall ==
    [start_port |-> 0, max_retries |-> 0, port |-> 0, s |-> 0, returned |-> {},
     raised |-> << >>, tested |-> << >>, at_call |-> {}, stable |-> TRUE]

\* no text of the generation service is held outside generate_dockerfile
NoResponses == [p \in Procs |-> << >>]

InitPorts ==
    /\ bound = {}
    /\ sockets = {}
    /\ ffp = [p \in Procs |-> NoCall]

\* the engine before the first run: no image, and no container of this name or
\* one left by an earlier deployment, running or stopped
InitEngine ==
    /\ image = FALSE
    /\ \E prior \in {"none", "running", "exited"} :
         IF prior = "none"
         THEN containers = {} /\ next_id = 1
         ELSE /\ containers = {Container(1, prior, 32768, << >>, PriorRun)}
              /\ next_id = 2
    /\ engine_rejects_dup \in BOOLEAN

\* the documented scenario starts on a Docker engine that holds no container;
\* the other tree starts on every engine
Init ==
    /\ tree \in TreeSamples
    /\ host_env \in HostEnvSamples
    /\ entrypoint_file = NoFile
    /\ dockerfile_file = NoFile
    /\ InitEngine
    /\ Len(tree) = 2 => (containers = {} /\ engine_rejects_dup)
    /\ runners = {1}
    /\ InitLocals
    /\ InitPorts
    /\ response = NoResponses
    /\ auto = NoPipeline


(***************************************************************************)
(* The run's bookkeeping and the three exception handlers.                 *)
(***************************************************************************)
Goto(p, where) == pc' = [pc EXCEPT ![p] = where]

Enter(p, stage) == hist' = [hist EXCEPT ![p] = Append(@, stage)]

Call(p, name) == calls' = [calls EXCEPT ![p][name] = @ + 1]

Raised(p, stage, cause) ==
    fault' = [fault EXCEPT ![p] = Append(@, [stage |-> stage, cause |-> cause])]

\* run() returns: the list is handed to the caller
Return(p, list) ==
    /\ Goto(p, "done")
    /\ result' = [result EXCEPT ![p] = list]

\* run, lines 222-223: except Exception as e: return [f"Error: {str(e)}"]
run_except(p, cause) == Return(p, << RunError(cause) >>)

deploy_except_Deployed(p, cause) == Return(p, << F1, Deployed >>)

\* deploy_container, lines 211-213, and run, lines 220-221: the failure text
\* is deploy_container's return value, which run returns beside f1
deploy_except(p, cause) == Return(p, << F1, DeploymentFailed(cause) >>)

\* deploy_container, lines 175-176: re-raised as "Docker Build Failed: ..."
build_except(p, cause) == deploy_except(p, DockerBuildFailed(cause))

(***************************************************************************)
(* DevOpsAgent.run, stage by stage.                                        *)
(***************************************************************************)
\* a caller invokes run(): every local of the previous run is gone
run_start(p) ==
    /\ p \in runners
    /\ pc[p] \in {"idle", "done"}
    /\ runs[p] < MaxRuns
    /\ Goto(p, "ensure_entrypoint")
    /\ runs' = [runs EXCEPT ![p] = @ + 1]
    /\ context' = [context EXCEPT ![p] = << >>]
    /\ result' = [result EXCEPT ![p] = << >>]
    /\ stream' = [stream EXCEPT ![p] = << >>]
    /\ pos' = [pos EXCEPT ![p] = 0]
    /\ build_success' = [build_success EXCEPT ![p] = FALSE]
    /\ old' = [old EXCEPT ![p] = {}]
    /\ env_passed' = [env_passed EXCEPT ![p] = << >>]
    /\ hist' = [hist EXCEPT ![p] = << >>]
    /\ calls' = [calls EXCEPT ![p] = NoCalls]
    /\ fault' = [fault EXCEPT ![p] = << >>]
    /\ used' = [used EXCEPT ![p] = NoTags]
    /\ UNCHANGED shared
    /\ UNCHANGED direct

\* what the write of docker_entrypoint.py leaves on disk: open(..., 'w')
\* truncates, so a write that raises after the open leaves an empty file
EntrypointOutcomes == {"written", "open raises", "write raises", "empty after write"}

EntrypointAfter_Append(outcome, before) ==
    CASE outcome = "written" -> File(before.content \o entrypoint_content)
      [] outcome = "open raises" -> before
      [] outcome = "write raises" -> before
      [] outcome = "empty after write" -> before

EntrypointAfter(outcome, before) ==
    CASE outcome = "written" -> File(entrypoint_content)
      [] outcome = "open raises" -> before
      [] outcome = "write raises" -> File(<< >>)
      [] outcome = "empty after write" -> File(<< >>)

\* ensure_entrypoint prints its CRITICAL ERROR and returns normally in every
\* branch (lines 90-95), so run goes on to line 218
ensure_entrypoint_then(outcome) == "get_project_context"

ensure_entrypoint(p) ==
    /\ pc[p] = "ensure_entrypoint"
    /\ \E outcome \in EntrypointOutcomes :
         /\ entrypoint_file' = EntrypointAfter(outcome, entrypoint_file)
         /\ IF outcome = "written" /\ getsize(entrypoint_file') > 0
            THEN UNCHANGED fault
            ELSE Raised(p, "WriteEntrypoint", << outcome >>)
         /\ Goto(p, ensure_entrypoint_then(outcome))
    /\ Enter(p, "WriteEntrypoint")
    /\ Call(p, "write_entrypoint")
    /\ UNCHANGED << tree, host_env, dockerfile_file, image, containers, next_id,
                    engine_rejects_dup, runners >>
    /\ UNCHANGED << runs, context, result, stream, pos, build_success, old, env_passed >>
    /\ UNCHANGED direct
    /\ UNCHANGED used

\* run, line 218: context = self._get_project_context()
run_get_project_context(p) ==
    /\ pc[p] = "get_project_context"
    /\ context' = [context EXCEPT ![p] = get_project_context(tree)]
    /\ Goto(p, "generate_dockerfile")
    /\ Enter(p, "ScanContext")
    /\ Call(p, "os_walk")
    /\ UNCHANGED shared
    /\ UNCHANGED << runs, result, stream, pos, build_success, old, env_passed, fault >>
    /\ UNCHANGED direct
    /\ UNCHANGED used

\* generate_dockerfile, lines 119-127: the call of the generation service,
\* the sanitising and the write of <repo>/Dockerfile
generate_raised_Swallowed(p, cause) ==
    /\ Goto(p, "deploy_container")
    /\ UNCHANGED result

\* self.llm.invoke raises: nothing in generate_dockerfile catches it
generate_raised(p, cause) == run_except(p, cause)

generate_dockerfile(p) ==
    /\ pc[p] = "generate_dockerfile"
    /\ Enter(p, "WriteBuildDefinition")
    /\ \/ /\ generate_raised(p, << "generation service error" >>)
          /\ Raised(p, "WriteBuildDefinition", << "generation service error" >>)
          /\ calls' = [calls EXCEPT ![p]["llm_invoke"] = @ + 1]
          /\ UNCHANGED dockerfile_file
       \/ /\ run_except(p, << "OSError" >>)
          /\ Raised(p, "WriteBuildDefinition", << "OSError" >>)
          /\ calls' = [calls EXCEPT ![p]["llm_invoke"] = @ + 1,
                                    ![p]["write_dockerfile"] = @ + 1]
          /\ UNCHANGED dockerfile_file
       \/ \E content \in Responses :
            /\ dockerfile_file' = File(Sanitize(content))
            /\ calls' = [calls EXCEPT ![p]["llm_invoke"] = @ + 1,
                                      ![p]["write_dockerfile"] = @ + 1]
            /\ Goto(p, "deploy_container")
            /\ UNCHANGED << result, fault >>
    /\ UNCHANGED << tree, host_env, entrypoint_file, image, containers, next_id,
                    engine_rejects_dup, runners >>
    /\ UNCHANGED << runs, context, stream, pos, build_success, old, env_passed >>
    /\ UNCHANGED direct
    /\ UNCHANGED used


(***************************************************************************)
(* DevOpsAgent.deploy_container, one action per call of the engine.        *)
(***************************************************************************)
\* line 139: client = docker.from_env()
deploy_container(p) ==
    /\ pc[p] = "deploy_container"
    /\ Call(p, "from_env")
    /\ \/ /\ Goto(p, "api_build")
          /\ UNCHANGED result
       \/ deploy_except(p, << "DockerException" >>)
    /\ UNCHANGED shared
    /\ UNCHANGED << runs, context, stream, pos, build_success, old, env_passed, hist, fault >>
    /\ UNCHANGED direct
    /\ UNCHANGED used

\* lines 148-155: the build is submitted and the engine hands back its event
\* stream; the engine decides what the stream will hold
api_build(p) ==
    /\ pc[p] = "api_build"
    /\ Enter(p, "BuildImage")
    /\ Call(p, "api_build")
    /\ \/ \E s \in Streams :
            /\ stream' = [stream EXCEPT ![p] = s]
            /\ Goto(p, "build_generator")
            /\ UNCHANGED << result, fault >>
       \/ /\ build_except(p, << "APIError" >>)
          /\ Raised(p, "BuildImage", << "APIError" >>)
          /\ UNCHANGED stream
    /\ pos' = [pos EXCEPT ![p] = 0]
    /\ build_success' = [build_success EXCEPT ![p] = FALSE]
    /\ UNCHANGED shared
    /\ UNCHANGED << runs, context, old, env_passed >>
    /\ UNCHANGED direct
    /\ Use(p, "build_tag", image_tag)

\* lines 156-165: one iteration of "for chunk in build_generator"
build_chunk(p) ==
    /\ pc[p] = "build_generator"
    /\ pos[p] < Len(stream[p])
    /\ LET chunk == stream[p][pos[p] + 1]
           kind == ChunkKind(chunk)
       IN  /\ pos' = [pos EXCEPT ![p] = @ + 1]
           /\ build_success' = [build_success EXCEPT ![p] = @ \/ kind = "stream"]
           /\ IF kind = "error"
              THEN /\ build_except(p, BuildError(chunk))
                   /\ Raised(p, "BuildImage", BuildError(chunk))
              ELSE UNCHANGED << pc, result, fault >>
    /\ UNCHANGED shared
    /\ UNCHANGED << runs, context, stream, old, env_passed, hist, calls >>
    /\ UNCHANGED direct
    /\ UNCHANGED used

after_stream_AwaitsLogs(success) == IF success THEN "images_get" ELSE "awaiting_logs"

after_stream_NoLogsAbort(success) == IF success THEN "images_get" ELSE "done"

\* lines 167-173: with or without stream logs the next statement is the
\* image check
after_stream(success) == "images_get"

\* lines 167-170: the engine closes the stream; it has tagged an image or it
\* has not.  Without a stream event the warning of line 168 is printed.  The
\* exhausted generator holds nothing any more.
build_stream_end(p) ==
    /\ pc[p] = "build_generator"
    /\ pos[p] = Len(stream[p])
    /\ image' \in {image, TRUE}
    /\ stream' = [stream EXCEPT ![p] = << >>]
    /\ pos' = [pos EXCEPT ![p] = 0]
    /\ Goto(p, after_stream(build_success[p]))
    /\ IF build_success[p] THEN UNCHANGED calls ELSE Call(p, "print_warning")
    /\ UNCHANGED << tree, host_env, entrypoint_file, dockerfile_file, containers, next_id,
                    engine_rejects_dup, runners >>
    /\ UNCHANGED << runs, context, result, build_success, old, env_passed >>
    /\ UNCHANGED << hist, fault >>
    /\ UNCHANGED direct
    /\ UNCHANGED used

\* client.images.get(tag) raises ImageNotFound when the engine has no such image
images_get_raises_Never(img) == FALSE

images_get_raises(img) == ~img

\* line 173: the image-existence check
images_get(p) ==
    /\ pc[p] = "images_get"
    /\ Call(p, "images_get")
    /\ IF images_get_raises(image)
       THEN /\ build_except(p, << "ImageNotFound" >>)
            /\ Raised(p, "BuildImage", << "ImageNotFound" >>)
       ELSE /\ Goto(p, "containers_get")
            /\ UNCHANGED << result, fault >>
    /\ UNCHANGED shared
    /\ UNCHANGED << runs, context, stream, pos, build_success, old, env_passed, hist >>
    /\ UNCHANGED direct
    /\ Use(p, "images_get", image_tag)

\* lines 184-185: "except: pass" -- whatever the cleanup raised, the run goes
\* on at line 187, towards the launch
cleanup_except_Abort == "done"

cleanup_except == "containers_run"

\* line 181: old = client.containers.get(image_tag); it raises NotFound when
\* no container bears the name, which the bare except of line 184 swallows
containers_get(p) ==
    /\ pc[p] = "containers_get"
    /\ Enter(p, "ReplaceContainer")
    /\ Call(p, "containers_get")
    /\ \/ \E c \in Named(containers, image_tag) :
            /\ old' = [old EXCEPT ![p] = {c.id}]
            /\ Goto(p, "stop")
       \/ /\ Named(containers, image_tag) = {}
          /\ Goto(p, cleanup_except)
          /\ UNCHANGED old
    /\ UNCHANGED shared
    /\ UNCHANGED << runs, context, result, stream, pos, build_success, env_passed, fault >>
    /\ UNCHANGED direct
    /\ Use(p, "containers_get", image_tag)

\* line 182: old.stop(); a raise skips old.remove()
stop(p) ==
    /\ pc[p] = "stop"
    /\ Call(p, "stop")
    /\ \/ /\ \E c \in containers : c.id \in old[p]
          /\ containers' = { IF c.id \in old[p] THEN [c EXCEPT !.status = "exited"] ELSE c :
                             c \in containers }
          /\ Goto(p, "remove")
       \/ /\ Goto(p, cleanup_except)
          /\ UNCHANGED containers
    /\ UNCHANGED << tree, host_env, entrypoint_file, dockerfile_file, image, next_id,
                    engine_rejects_dup, runners >>
    /\ UNCHANGED << runs, context, result, stream, pos, build_success, old, env_passed >>
    /\ UNCHANGED << hist, fault >>
    /\ UNCHANGED direct
    /\ UNCHANGED used

\* line 183: old.remove()
remove(p) ==
    /\ pc[p] = "remove"
    /\ Call(p, "remove")
    /\ \/ /\ \E c \in containers : c.id \in old[p] /\ c.status = "exited"
          /\ containers' = {c \in containers : c.id \notin old[p]}
          /\ Goto(p, "containers_run")
       \/ /\ Goto(p, cleanup_except)
          /\ UNCHANGED containers
    /\ UNCHANGED << tree, host_env, entrypoint_file, dockerfile_file, image, next_id,
                    engine_rejects_dup, runners >>
    /\ UNCHANGED << runs, context, result, stream, pos, build_success, old, env_passed >>
    /\ UNCHANGED << hist, fault >>
    /\ UNCHANGED direct
    /\ UNCHANGED used


\* the host ports no running container holds
FreePorts == HostPorts \ {c.port : c \in {d \in containers : d.status = "running"}}

\* the engine creates and starts a container from the tagged image, unless the
\* image is gone, no host port is left, or it refuses the name
CanLaunch ==
    /\ image
    /\ FreePorts # {}
    /\ ~(engine_rejects_dup /\ Named(containers, image_tag) # {})

launch_raised_Retry(p, cause) == UNCHANGED << pc, result >>

\* client.containers.run raises: the outer handler of lines 211-213
launch_raised(p, cause) == deploy_except(p, cause)

\* lines 190-209: the environment map, the launch, and the returned text
containers_run(p) ==
    /\ pc[p] = "containers_run"
    /\ Call(p, "containers_run")
    /\ env_passed' = [env_passed EXCEPT ![p] = env_vars(host_env)]
    /\ \/ /\ CanLaunch
          /\ \E port \in FreePorts :
               containers' = containers \cup
                   {Container(next_id, "running", port, env_passed'[p], << p, runs[p] >>)}
          /\ next_id' = next_id + 1
          /\ Return(p, << F1, Deployed >>)
          /\ UNCHANGED fault
       \/ /\ launch_raised(p, << "APIError" >>)
          /\ Raised(p, "ReplaceContainer", << "APIError" >>)
          /\ UNCHANGED << containers, next_id >>
    /\ UNCHANGED << tree, host_env, entrypoint_file, dockerfile_file, image,
                    engine_rejects_dup, runners >>
    /\ UNCHANGED << runs, context, stream, pos, build_success, old, hist >>
    /\ UNCHANGED direct
    /\ used' = [used EXCEPT ![p]["run_image"] = @ \cup {image_tag},
                            ![p]["run_name"] = @ \cup {image_tag}]

Next ==
    \E p \in Procs :
        \/ run_start(p)
        \/ ensure_entrypoint(p)
        \/ run_get_project_context(p)
        \/ generate_dockerfile(p)
        \/ deploy_container(p)
        \/ api_build(p)
        \/ build_chunk(p)
        \/ build_stream_end(p)
        \/ images_get(p)
        \/ containers_get(p)
        \/ stop(p)
        \/ remove(p)
        \/ containers_run(p)

Spec == Init /\ [][Next]_vars


(***************************************************************************)
(* The run as one thread of control whose external calls return or fail:   *)
(* a run that stands before a call of the disk, the generation service or  *)
(* the engine takes that step.  Nothing in the code bounds the wait for    *)
(* the next event of the build stream (lines 156-165 have no timeout), so  *)
(* the delivery of events and the end of the stream are the engine's to    *)
(* give: StreamEnds says it does.                                          *)
(***************************************************************************)
CallStep(p) ==
    \/ ensure_entrypoint(p)
    \/ run_get_project_context(p)
    \/ generate_dockerfile(p)
    \/ deploy_container(p)
    \/ api_build(p)
    \/ images_get(p)
    \/ containers_get(p)
    \/ stop(p)
    \/ remove(p)
    \/ containers_run(p)

StreamStep(p) == build_chunk(p) \/ build_stream_end(p)

CallsReturn == \A p \in Procs : WF_vars(CallStep(p))

StreamEnds == \A p \in Procs : WF_vars(StreamStep(p))

\* the documented project, redeployed over the container of an earlier run,
\* on an engine that keeps container names unique
InitLive ==
    /\ tree \in {t \in TreeSamples : Len(t) = 2}
    /\ host_env \in HostEnvSamples
    /\ entrypoint_file = NoFile
    /\ dockerfile_file = NoFile
    /\ image = FALSE
    /\ containers = {Container(1, "running", 32768, << >>, PriorRun)}
    /\ next_id = 2
    /\ engine_rejects_dup = TRUE
    /\ runners = {1}
    /\ InitLocals
    /\ InitPorts
    /\ response = NoResponses
    /\ auto = NoPipeline

SpecLive == InitLive /\ [][Next]_vars /\ CallsReturn

(***************************************************************************)
(* The environment map on its own: lines 190-198 applied to every host     *)
(* environment over EnvNames.                                              *)
(***************************************************************************)
InitEnv ==
    /\ tree \in {t \in TreeSamples : Len(t) = 2}
    /\ host_env \in HostEnvs
    /\ entrypoint_file = NoFile
    /\ dockerfile_file = NoFile
    /\ image = FALSE
    /\ containers = {}
    /\ next_id = 1
    /\ engine_rejects_dup = TRUE
    /\ runners = {1}
    /\ InitLocals
    /\ InitPorts
    /\ response = NoResponses
    /\ auto = NoPipeline

call_env_vars(p) ==
    /\ p \in runners
    /\ pc[p] = "idle"
    /\ env_passed' = [env_passed EXCEPT ![p] = env_vars(host_env)]
    /\ Goto(p, "env_vars")
    /\ UNCHANGED shared
    /\ UNCHANGED << runs, context, result, stream, pos, build_success, old >>
    /\ UNCHANGED observed
    /\ UNCHANGED direct

NextEnv == \E p \in Procs : call_env_vars(p)

SpecEnv == InitEnv /\ [][NextEnv]_vars

(***************************************************************************)
(* find_free_port, lines 7-16, called on its own: the loop over the range, *)
(* one test socket per candidate, and the other processes of the host      *)
(* binding and releasing ports while it runs.                              *)
(***************************************************************************)
\* the default of start_port (line 7)
start_port == 8000

\* the ports of the host that matter to the bounded calls
PortUniverse == start_port .. (start_port + MaxRetries + 1)

StartPorts == {start_port, start_port + 1}

InitPort ==
    /\ tree \in {t \in TreeSamples : Len(t) = 2}
    /\ host_env \in HostEnvSamples
    /\ entrypoint_file = NoFile
    /\ dockerfile_file = NoFile
    /\ image = FALSE
    /\ containers = {}
    /\ next_id = 1
    /\ engine_rejects_dup = TRUE
    /\ runners = {1}
    /\ InitLocals
    /\ bound \in SUBSET PortUniverse
    /\ sockets = {}
    /\ ffp = [p \in Procs |-> NoCall]
    /\ response = NoResponses
    /\ auto = NoPipeline

\* the test sockets a caller holds open
SocketsOf(p) == {k \in sockets : k.by = p}

\* the ports a test socket is bound to
HeldByTest == {k.port : k \in {j \in sockets : j.port # 0}}

range_end_Inclusive(start, retries) == start + retries + 1

\* line 8: range(start_port, start_port + max_retries) ends before this port
range_end(start, retries) == start + retries

close_Leak(socks, id) == socks

\* line 9: leaving the "with" block closes the socket, on return and on continue
close(socks, id) == {k \in socks : k.id # id}

\* line 12: s.bind(('0.0.0.0', port)) raises OSError when the port is held
bind_raises(port) == port \in bound \cup HeldByTest

PortFrame ==
    /\ UNCHANGED << shared, response, auto >>
    /\ UNCHANGED << runs, context, result, stream, pos, build_success, old, env_passed >>
    /\ UNCHANGED observed

\* line 7: a caller invokes find_free_port(start, retries)
call_find_free_port(p) ==
    /\ p \in runners
    /\ pc[p] = "idle"
    /\ \E start \in StartPorts, retries \in 0 .. MaxRetries :
         ffp' = [ffp EXCEPT ![p] =
                    [NoCall EXCEPT !.start_port = start, !.max_retries = retries,
                                   !.port = start, !.at_call = bound]]
    /\ Goto(p, "for_port")
    /\ UNCHANGED << bound, sockets >>
    /\ PortFrame

\* lines 8-9 and 16: the next candidate gets a fresh socket, or the range is
\* exhausted and the function raises
for_port(p) ==
    /\ pc[p] = "for_port"
    /\ IF ffp[p].port < range_end(ffp[p].start_port, ffp[p].max_retries)
       THEN LET id == Len(ffp[p].tested) + 1
            IN  /\ sockets' = sockets \cup {[id |-> id, port |-> 0, by |-> p]}
                /\ ffp' = [ffp EXCEPT ![p].s = id]
                /\ Goto(p, "bind")
       ELSE /\ ffp' = [ffp EXCEPT ![p].raised = << "No free ports found available!" >>]
            /\ Goto(p, "done")
            /\ UNCHANGED sockets
    /\ UNCHANGED bound
    /\ PortFrame

\* lines 11-15: the bind succeeds or raises OSError
bind(p) ==
    /\ pc[p] = "bind"
    /\ LET free == ~bind_raises(ffp[p].port)
       IN  /\ ffp' = [ffp EXCEPT ![p].tested =
                          Append(@, [port |-> ffp[p].port, free |-> free])]
           /\ IF free
              THEN /\ sockets' = { IF k.id = ffp[p].s /\ k.by = p
                                   THEN [k EXCEPT !.port = ffp[p].port] ELSE k : k \in sockets }
                   /\ Goto(p, "return_port")
              ELSE /\ Goto(p, "continue")
                   /\ UNCHANGED sockets
    /\ UNCHANGED bound
    /\ PortFrame

\* line 13: return port, through the end of the "with" block
return_port(p) ==
    /\ pc[p] = "return_port"
    /\ sockets' = (sockets \ SocketsOf(p)) \cup close(SocketsOf(p), ffp[p].s)
    /\ ffp' = [ffp EXCEPT ![p].returned = {ffp[p].port},
                          ![p].s = 0]
    /\ Goto(p, "done")
    /\ UNCHANGED bound
    /\ PortFrame

\* lines 14-15: except OSError: continue, through the end of the "with" block
continue_port(p) ==
    /\ pc[p] = "continue"
    /\ sockets' = (sockets \ SocketsOf(p)) \cup close(SocketsOf(p), ffp[p].s)
    /\ ffp' = [ffp EXCEPT ![p].port = @ + 1, ![p].s = 0]
    /\ Goto(p, "for_port")
    /\ UNCHANGED bound
    /\ PortFrame

InCall(p) == pc[p] \in {"for_port", "bind", "return_port", "continue"}

\* another process of the host binds a port that nobody holds
other_bind(p) ==
    /\ InCall(p)
    /\ \E q \in PortUniverse \ (bound \cup HeldByTest) : bound' = bound \cup {q}
    /\ ffp' = [ffp EXCEPT ![p].stable = FALSE]
    /\ UNCHANGED << pc, sockets >>
    /\ PortFrame

\* another process of the host releases a port it holds
other_release(p) ==
    /\ InCall(p)
    /\ \E q \in bound : bound' = bound \ {q}
    /\ ffp' = [ffp EXCEPT ![p].stable = FALSE]
    /\ UNCHANGED << pc, sockets >>
    /\ PortFrame

NextPort ==
    \E p \in Procs :
        \/ call_find_free_port(p)
        \/ for_port(p)
        \/ bind(p)
        \/ return_port(p)
        \/ continue_port(p)
        \/ other_bind(p)
        \/ other_release(p)

SpecPort == InitPort /\ [][NextPort]_vars


(***************************************************************************)
(* The sanitising and the write of generate_dockerfile, lines 121-124, on  *)
(* their own: applied to every text of at most MaxText characters over     *)
(* the backquote, the language tag, a line of content and white space.     *)
(***************************************************************************)
TextAlphabet == {Backquote, "dockerfile", "FROM python:3.9-slim", "\n"}

Texts == SeqsUpTo(TextAlphabet, MaxText)

InitText ==
    /\ tree \in {t \in TreeSamples : Len(t) = 2}
    /\ host_env \in HostEnvSamples
    /\ entrypoint_file = NoFile
    /\ dockerfile_file = NoFile
    /\ image = FALSE
    /\ containers = {}
    /\ next_id = 1
    /\ engine_rejects_dup = TRUE
    /\ runners = {1}
    /\ InitLocals
    /\ InitPorts
    /\ \E text \in Texts :
         response = [p \in Procs |-> IF p \in runners THEN text ELSE << >>]
    /\ auto = NoPipeline

\* lines 121-124: clean_content is computed from response.content and written
write_clean_content(p) ==
    /\ p \in runners
    /\ pc[p] = "idle"
    /\ dockerfile_file' = File(Sanitize(response[p]))
    /\ Goto(p, "generated")
    /\ UNCHANGED << tree, host_env, entrypoint_file, image, containers, next_id,
                    engine_rejects_dup, runners >>
    /\ UNCHANGED << runs, context, result, stream, pos, build_success, old, env_passed >>
    /\ UNCHANGED observed
    /\ UNCHANGED direct

NextText == \E p \in Procs : write_clean_content(p)

SpecText == InitText /\ [][NextText]_vars

(***************************************************************************)
(* ensure_entrypoint, lines 60-95, called on its own, up to MaxRuns times  *)
(* on the same directory, whatever <repo>/docker_entrypoint.py held.       *)
(***************************************************************************)
PriorEntrypoints ==
    { NoFile, File(<< >>), File(<< "\n" >>), File(entrypoint_content),
      File(<< "print('hello')" >>), File(<< "print('hello')", "\n" >>),
      File(entrypoint_content \o << "print('hello')" >>) }

InitEntry ==
    /\ tree \in TreeSamples
    /\ host_env \in HostEnvSamples
    /\ entrypoint_file \in PriorEntrypoints
    /\ dockerfile_file = NoFile
    /\ image = FALSE
    /\ containers = {}
    /\ next_id = 1
    /\ engine_rejects_dup = TRUE
    /\ runners = {1}
    /\ InitLocals
    /\ InitPorts
    /\ response = NoResponses
    /\ auto = NoPipeline

\* a caller invokes ensure_entrypoint(), the first time or again
call_ensure_entrypoint(p) ==
    /\ p \in runners
    /\ pc[p] \in {"idle", "get_project_context"}
    /\ runs[p] < MaxRuns
    /\ runs' = [runs EXCEPT ![p] = @ + 1]
    /\ Goto(p, "ensure_entrypoint")
    /\ UNCHANGED shared
    /\ UNCHANGED << context, result, stream, pos, build_success, old, env_passed >>
    /\ UNCHANGED observed
    /\ UNCHANGED direct

NextEntry ==
    \E p \in Procs :
        \/ call_ensure_entrypoint(p)
        \/ ensure_entrypoint(p)

SpecEntry == InitEntry /\ [][NextEntry]_vars

(***************************************************************************)
(* Two callers whose runs overlap: nothing in run() or deploy_container    *)
(* excludes a second run on the same project.  Both runs have written the  *)
(* entrypoint, scanned the tree and written the build definition; their    *)
(* engine operations interleave in every order.                            *)
(***************************************************************************)
InitPair ==
    /\ tree \in {t \in TreeSamples : Len(t) = 2}
    /\ host_env \in HostEnvSamples
    /\ entrypoint_file = File(entrypoint_content)
    /\ dockerfile_file \in {File(Sanitize(content)) : content \in Responses}
    /\ InitEngine
    /\ runners = Procs
    /\ pc = [p \in Procs |-> "deploy_container"]
    /\ runs = [p \in Procs |-> 1]
    /\ context = [p \in Procs |-> get_project_context(tree)]
    /\ result = [p \in Procs |-> << >>]
    /\ stream = [p \in Procs |-> << >>]
    /\ pos = [p \in Procs |-> 0]
    /\ build_success = [p \in Procs |-> FALSE]
    /\ old = [p \in Procs |-> {}]
    /\ env_passed = [p \in Procs |-> << >>]
    /\ hist = [p \in Procs |-> SubSeq(StageOrder, 1, 3)]
    /\ calls = [p \in Procs |->
                  [c \in CallNames |->
                      IF c \in {"write_entrypoint", "os_walk", "llm_invoke", "write_dockerfile"}
                      THEN 1 ELSE 0]]
    /\ fault = [p \in Procs |-> << >>]
    /\ used = [p \in Procs |-> NoTags]
    /\ InitPorts
    /\ response = NoResponses
    /\ auto = NoPipeline

NextPair ==
    \E p \in Procs :
        \/ deploy_container(p)
        \/ api_build(p)
        \/ build_chunk(p)
        \/ build_stream_end(p)
        \/ images_get(p)
        \/ containers_get(p)
        \/ stop(p)
        \/ remove(p)
        \/ containers_run(p)

SpecPair == InitPair /\ [][NextPair]_vars

(***************************************************************************)
(* auto_devops.run_devops_pipeline, lines 38-84, with ask_ai_for_config,   *)
(* lines 13-36: for every set of files of the working directory, with or   *)
(* without a Dockerfile left there before.                                 *)
(***************************************************************************)
PythonDockerfile == << "FROM python:3.9-slim", "CMD [\"python\", \"app.py\"]" >>

NodeDockerfile == << "FROM node:14", "CMD [\"npm\", \"start\"]" >>

ErrorText == << "ERROR" >>

workflow_content == << "name: CI Pipeline" >>

\* lines 16-36: the project type read off the file names
ask_ai_for_config(file_list) ==
    IF "app.py" \in file_list \/ "requirements.txt" \in file_list THEN PythonDockerfile
    ELSE IF "package.json" \in file_list THEN NodeDockerfile
    ELSE ErrorText

\* the names os.listdir('.') can give
DirNames == {"app.py", "requirements.txt", "package.json", "README.md"}

InitAuto ==
    /\ tree \in {t \in TreeSamples : Len(t) = 2}
    /\ host_env \in HostEnvSamples
    /\ entrypoint_file = NoFile
    /\ dockerfile_file = NoFile
    /\ image = FALSE
    /\ containers = {}
    /\ next_id = 1
    /\ engine_rejects_dup = TRUE
    /\ runners = {1}
    /\ InitLocals
    /\ InitPorts
    /\ response = NoResponses
    /\ \E files \in SUBSET DirNames, before \in {NoFile, File(<< "FROM scratch" >>)} :
         auto = [NoPipeline EXCEPT !.pc = "listdir", !.files = files, !.dockerfile = before]

AutoFrame ==
    /\ UNCHANGED << shared, locals, observed >>
    /\ UNCHANGED << portvars, response >>

Step(name) == Append(auto.steps, name)

\* lines 40-47: the files are listed, the configuration is asked for, and
\* "ERROR" ends the function
analyze ==
    /\ auto.pc = "listdir"
    /\ LET content == ask_ai_for_config(auto.files)
       IN  auto' = [auto EXCEPT !.dockerfile_content = content,
                                !.pc = IF ErrorText = content THEN "returned"
                                       ELSE "open_dockerfile"]
    /\ AutoFrame

\* lines 49-51: the Dockerfile is written; an OSError leaves the function
open_dockerfile ==
    /\ auto.pc = "open_dockerfile"
    /\ \/ auto' = [auto EXCEPT !.dockerfile = File(auto.dockerfile_content),
                                !.steps = Step("write_dockerfile"),
                                !.pc = "images_build"]
       \/ auto' = [auto EXCEPT !.steps = Step("write_dockerfile"),
                                !.raised = << "OSError" >>,
                                !.pc = "raised"]
    /\ AutoFrame

build_failed_then_GoesOn == "write_workflow"

\* lines 59-61: except Exception as e: print, return
build_failed_then == "returned"

\* lines 55-61: client.images.build builds the image or raises
images_build ==
    /\ auto.pc = "images_build"
    /\ \/ auto' = [auto EXCEPT !.built = TRUE,
                                !.steps = Step("build"),
                                !.pc = "write_workflow"]
       \/ auto' = [auto EXCEPT !.build_raised = TRUE,
                                !.steps = Step("build"),
                                !.pc = build_failed_then]
    /\ AutoFrame

\* lines 64-84: the workflow directory and file are written
write_workflow ==
    /\ auto.pc = "write_workflow"
    /\ \/ auto' = [auto EXCEPT !.workflow = File(workflow_content),
                                !.steps = Step("write_workflow"),
                                !.pc = "returned"]
       \/ auto' = [auto EXCEPT !.steps = Step("write_workflow"),
                                !.raised = << "OSError" >>,
                                !.pc = "raised"]
    /\ AutoFrame

NextAuto ==
    \/ analyze
    \/ open_dockerfile
    \/ images_build
    \/ write_workflow

SpecAuto == InitAuto /\ [][NextAuto]_vars

(***************************************************************************)
(* What the claims speak of.                                               *)
(***************************************************************************)
Tokens(list) == UNION {Range(list[i]) : i \in DOMAIN list}

\* the returned list reports a failure
IsFailure(list) ==
    \E i \in DOMAIN list : list[i] # << >> /\ list[i][1] \in {"Error: ", "Deployment Failed: "}

\* the returned list reports a deployment
IsSuccess(list) == Len(list) = 2 /\ list[2] # << >> /\ list[2][1] = Deployed[1]

\* the stage a returned list names, "" when it names none
StageNamed(list) ==
    IF \E i \in DOMAIN list : Len(list[i]) >= 2 /\ list[i][1] = "Deployment Failed: "
                                /\ list[i][2] = "Docker Build Failed: "
    THEN "BuildImage"
    ELSE IF \E i \in DOMAIN list : list[i] # << >> /\ list[i][1] = "Deployment Failed: "
         THEN "ReplaceContainer"
         ELSE ""

FaultsIn(p, stage) == {i \in DOMAIN fault[p] : fault[p][i].stage = stage}

EntrypointFailed(p) == FaultsIn(p, "WriteEntrypoint") # {}

EngineCalls == {"from_env", "api_build", "images_get", "containers_get", "stop", "remove",
                "containers_run"}

ContainerCalls == {"containers_get", "stop", "remove", "containers_run"}

HasError(s) == \E i \in DOMAIN s : "error" \in DOMAIN s[i]

FirstError(s) == CHOOSE i \in DOMAIN s :
                    /\ "error" \in DOMAIN s[i]
                    /\ \A j \in 1..(i - 1) : "error" \notin DOMAIN s[j]

(***************************************************************************)
(* C1: if the entrypoint stage fails (the write raises or the file is      *)
(* empty after it), the run ends in a failure result and no later stage    *)
(* executes: no scan, no generation call, no engine call.                  *)
(* The code prints the error and goes on: TLC finds this violated.         *)
(***************************************************************************)
C1_EntrypointFailureEndsRun ==
    \A p \in Procs :
        EntrypointFailed(p) =>
            /\ \A c \in CallNames \ {"write_entrypoint"} : calls[p][c] = 0
            /\ pc[p] = "done" => IsFailure(result[p])

(***************************************************************************)
(* C2: once the scan has run, the bundle holds, for every readable file    *)
(* with a recognized name, in traversal order, an excerpt of exactly       *)
(* min(N, 50) of its N lines.  The code drops every file shorter than 50   *)
(* lines: TLC finds this violated.                                         *)
(***************************************************************************)
ReadableCritical(files) == SelectSeq(files, LAMBDA f : f.name \in critical_files /\ f.readable)

Min(a, b) == IF a < b THEN a ELSE b

C2_ExcerptHasMinLines ==
    \A p \in Procs :
        calls[p]["os_walk"] > 0 =>
            LET want == ReadableCritical(tree)
            IN  /\ Len(context[p]) = Len(want)
                /\ \A k \in DOMAIN want :
                     /\ context[p][k].file = want[k].name
                     /\ Len(context[p][k].excerpt) = Min(want[k].nlines, LineCap)

(***************************************************************************)
(* C3: when the first error event of the build stream has been reached,    *)
(* the run has ended in a failure whose text holds that event's message,   *)
(* no later event was consumed, and neither the image lookup nor any       *)
(* container operation was performed.                                      *)
(***************************************************************************)
C3_ErrorEventAbortsBuild ==
    \A p \in Procs :
        (HasError(stream[p]) /\ pos[p] >= FirstError(stream[p])) =>
            /\ pc[p] = "done"
            /\ pos[p] = FirstError(stream[p])
            /\ IsFailure(result[p])
            /\ StageNamed(result[p]) = "BuildImage"
            /\ stream[p][FirstError(stream[p])].error \in Tokens(result[p])
            /\ calls[p]["images_get"] = 0
            /\ \A c \in ContainerCalls : calls[p][c] = 0

C3_Witness ==
    \E p \in Procs :
        /\ pc[p] = "done"
        /\ Len(stream[p]) = 3
        /\ ChunkKind(stream[p][1]) = "stream"
        /\ FirstError(stream[p]) = 2
        /\ pos[p] = 2
        /\ "exit code 1" \in Tokens(result[p])

(***************************************************************************)
(* C4: when the image lookup is made and the engine holds no image of the  *)
(* tag, that step ends the run with a failure result, and no container     *)
(* lookup or launch was made in the run.                                   *)
(***************************************************************************)
C4_MissingImageFailsRun ==
    [][\A p \in Procs :
          (pc[p] = "images_get" /\ pc'[p] # "images_get" /\ ~image) =>
              /\ pc'[p] = "done"
              /\ IsFailure(result'[p])
              /\ StageNamed(result'[p]) = "BuildImage"
              /\ \A c \in ContainerCalls : calls'[p][c] = 0]_vars

C4_Witness ==
    \E p \in Procs :
        /\ pc[p] = "done"
        /\ ~image
        /\ build_success[p]
        /\ calls[p]["images_get"] = 1
        /\ "ImageNotFound" \in Tokens(result[p])

(***************************************************************************)
(* C5: at the end of every run (here: of every run whose entrypoint was    *)
(* written) at most one container bears the project's identity, whatever   *)
(* the cleanup step met, and without the engine having to refuse a         *)
(* duplicate name.  When stop or remove raises the code launches beside    *)
(* the old container: TLC finds this violated with an engine that does not *)
(* refuse the name.                                                        *)
(***************************************************************************)
C5_AtMostOneContainer ==
    \A p \in Procs :
        (pc[p] = "done" /\ ~EntrypointFailed(p)) =>
            Cardinality(Named(containers, image_tag)) <= 1


(***************************************************************************)
(* C6: when the generation service has raised, the run has ended with the  *)
(* single failure text "Error: <cause>", no engine call was made, the      *)
(* build definition was not written by the run, and the entrypoint the     *)
(* run's first stage wrote is on disk with its content.                    *)
(***************************************************************************)
GenerationRaised(p) ==
    \E i \in FaultsIn(p, "WriteBuildDefinition") :
        fault[p][i].cause = << "generation service error" >>

C6_GenerationFailureEndsRun ==
    \A p \in Procs :
        GenerationRaised(p) =>
            /\ pc[p] = "done"
            /\ result[p] = << RunError(<< "generation service error" >>) >>
            /\ \A c \in EngineCalls : calls[p][c] = 0
            /\ calls[p]["write_dockerfile"] = 0
            /\ ~EntrypointFailed(p) => entrypoint_file = File(entrypoint_content)

C6_Witness ==
    \E p \in Procs :
        /\ GenerationRaised(p)
        /\ ~EntrypointFailed(p)
        /\ pc[p] = "done"
        /\ entrypoint_file = File(entrypoint_content)
        /\ dockerfile_file = NoFile

(***************************************************************************)
(* C7: when a run ends in success, the address it returns carries the host *)
(* port bound to port 5000 of the container that run launched.  The        *)
(* returned text holds the placeholder ${host_port} instead of a port:     *)
(* TLC finds this violated.                                                *)
(***************************************************************************)
LaunchedBy(p) == {c \in containers : c.by = << p, runs[p] >>}

C7_ResultCarriesBoundPort ==
    \A p \in Procs :
        (pc[p] = "done" /\ IsSuccess(result[p]) /\ ~EntrypointFailed(p)) =>
            \E c \in LaunchedBy(p) : ToString(c.port) \in Tokens(result[p])

(***************************************************************************)
(* C8: when a run has ended and an error of one of its stages was raised   *)
(* in it, the returned list is one failure description that names that     *)
(* stage and holds the cause.  A failed entrypoint write leaves no trace   *)
(* in the result and a generation error is returned as "Error: <cause>"    *)
(* with no stage: TLC finds this violated.                                 *)
(***************************************************************************)
C8_FailureNamesStage ==
    \A p \in Procs :
        (pc[p] = "done" /\ fault[p] # << >>) =>
            /\ IsFailure(result[p])
            /\ \A i \in DOMAIN fault[p] :
                 /\ StageNamed(result[p]) = fault[p][i].stage
                 /\ Range(fault[p][i].cause) \subseteq Tokens(result[p])

(***************************************************************************)
(* C9: in every run the stages entered so far are an initial part of       *)
(* WriteEntrypoint, ScanContext, WriteBuildDefinition, BuildImage,         *)
(* ReplaceContainer (in order, none twice, none skipped), the generation   *)
(* service, the build submission and the launch were each called at most   *)
(* once, and a run that ended in success entered all five.                 *)
(***************************************************************************)
C9_StagesInOrderOnce ==
    \A p \in Procs :
        /\ Len(hist[p]) <= Len(StageOrder)
        /\ hist[p] = SubSeq(StageOrder, 1, Len(hist[p]))
        /\ \A c \in {"llm_invoke", "api_build", "containers_run"} : calls[p][c] <= 1
        /\ (pc[p] = "done" /\ IsSuccess(result[p])) => hist[p] = StageOrder

C9_Witness ==
    \E p \in Procs :
        /\ pc[p] = "done"
        /\ IsSuccess(result[p])
        /\ hist[p] = StageOrder
        /\ runs[p] = 2
        /\ \A c \in {"llm_invoke", "api_build", "containers_run"} : calls[p][c] = 1

(***************************************************************************)
(* C10: the environment map built for the launch holds exactly the         *)
(* allow-listed names that are set on the host, each with the host's       *)
(* value: no unset name, no name outside the allow-list.                   *)
(***************************************************************************)
C10_EnvIsAllowListedAndSet ==
    \A p \in Procs :
        pc[p] = "env_vars" =>
            /\ DOMAIN env_passed[p] = Range(AllowList) \cap DOMAIN host_env
            /\ \A k \in DOMAIN env_passed[p] : env_passed[p][k] = host_env[k]

C10_Witness ==
    \E p \in Procs :
        /\ pc[p] = "env_vars"
        /\ "AZURE_VERSION" \in DOMAIN host_env
        /\ "TAVILY_API_KEY" \notin DOMAIN host_env
        /\ "AZURE_API_KEY" \in DOMAIN host_env /\ host_env["AZURE_API_KEY"] = ""
        /\ DOMAIN env_passed[p] = {"AZURE_API_KEY", "AZURE_DEPLOYMENT"}
        /\ env_passed[p]["AZURE_DEPLOYMENT"] = "v"

(***************************************************************************)
(* C11: once the cleanup of the previous container has begun, whatever the *)
(* lookup, the stop and the remove met (not found, stop raised, remove     *)
(* raised), the run has not ended before the launch: while it cleans up    *)
(* no result exists and the launch was not attempted, and when the run has *)
(* ended the launch was attempted exactly once and a failure result is the *)
(* launch's own.                                                           *)
(***************************************************************************)
LaunchRaised(p) ==
    \E i \in FaultsIn(p, "ReplaceContainer") : fault[p][i].cause = << "APIError" >>

C11_CleanupIsBestEffort ==
    \A p \in Procs :
        calls[p]["containers_get"] > 0 =>
            /\ calls[p]["containers_get"] = 1
            /\ pc[p] \in {"stop", "remove", "containers_run", "done"}
            /\ pc[p] # "done" => (result[p] = << >> /\ calls[p]["containers_run"] = 0)
            /\ pc[p] = "done" =>
                 /\ calls[p]["containers_run"] = 1
                 /\ IsFailure(result[p]) => LaunchRaised(p)

C11_Witness ==
    \E p \in Procs :
        /\ pc[p] = "done"
        /\ calls[p]["stop"] = 1
        /\ calls[p]["remove"] = 0
        /\ calls[p]["containers_run"] = 1
        /\ IsSuccess(result[p])
        /\ \E c \in Named(containers, image_tag) : c.by = PriorRun /\ c.status = "running"

(***************************************************************************)
(* C12: when the launch has raised, the run has ended with the failure     *)
(* text that carries the cause, the launch was attempted once and left no  *)
(* container, and nothing was undone: the build definition is still on     *)
(* disk, a prior instance the run stopped and removed is not back, and     *)
(* (the engine keeping names unique, as Docker does) no container of the   *)
(* identity is running.                                                    *)
(***************************************************************************)
RemovedOld(p) ==
    /\ calls[p]["remove"] = 1
    /\ old[p] # {}
    /\ \A c \in containers : c.id \notin old[p]

C12_LaunchFailureIsFinal ==
    \A p \in Procs :
        LaunchRaised(p) =>
            /\ pc[p] = "done"
            /\ result[p] = << F1, DeploymentFailed(<< "APIError" >>) >>
            /\ IsFailure(result[p])
            /\ "APIError" \in Tokens(result[p])
            /\ calls[p]["containers_run"] = 1
            /\ LaunchedBy(p) = {}
            /\ dockerfile_file.exists
            /\ (RemovedOld(p) /\ engine_rejects_dup) =>
                 \A c \in Named(containers, image_tag) : c.status # "running"

C12_Witness ==
    \E p \in Procs :
        /\ LaunchRaised(p)
        /\ pc[p] = "done"
        /\ calls[p]["stop"] = 1
        /\ RemovedOld(p)
        /\ engine_rejects_dup
        /\ image
        /\ Named(containers, image_tag) = {}

(***************************************************************************)
(* C13: when find_free_port(start, n) has ended, either it returned a port *)
(* r with start <= r < start + n that was free when it was tested, having  *)
(* tested start .. r in ascending order and found every port below r       *)
(* occupied at its test, or it raised, having tested every port of the     *)
(* range and found each occupied.  When no other process bound or released *)
(* a port during the call, it returned the lowest port of the range that   *)
(* was free at the call, and raised exactly when there was none.           *)
(***************************************************************************)
PortRange(p) == ffp[p].start_port .. (ffp[p].start_port + ffp[p].max_retries - 1)

TestedInOrder(p) ==
    \A i \in DOMAIN ffp[p].tested : ffp[p].tested[i].port = ffp[p].start_port + i - 1

C13_LowestFreePort ==
    \A p \in Procs :
        (pc[p] = "done" /\ p \in runners) =>
            LET call == ffp[p]
                free0 == PortRange(p) \ call.at_call
            IN  /\ TestedInOrder(p)
                /\ (call.returned # {}) # (call.raised # << >>)
                /\ \A r \in call.returned :
                     /\ r \in PortRange(p)
                     /\ Len(call.tested) = r - call.start_port + 1
                     /\ call.tested[Len(call.tested)].free
                     /\ \A i \in 1 .. (Len(call.tested) - 1) : ~call.tested[i].free
                /\ call.raised # << >> =>
                     /\ Len(call.tested) = call.max_retries
                     /\ \A i \in DOMAIN call.tested : ~call.tested[i].free
                /\ call.stable =>
                     /\ free0 = {} <=> call.raised # << >>
                     /\ \A r \in call.returned :
                          r \in free0 /\ \A q \in free0 : r <= q

C13_Witness ==
    \E p \in Procs :
        /\ pc[p] = "done"
        /\ ffp[p].stable
        /\ ffp[p].start_port = start_port + 1
        /\ ffp[p].max_retries = 3
        /\ ffp[p].at_call = {start_port + 1, start_port + 2}
        /\ ffp[p].returned = {start_port + 3}

(***************************************************************************)
(* C14: find_free_port holds at most one test socket open at any time,     *)
(* and none when it has ended, whether it returned a port or raised        *)
(* because every port of the range was occupied.                           *)
(***************************************************************************)
C14_NoSocketLeak ==
    \A p \in Procs :
        /\ Cardinality(SocketsOf(p)) <= 1
        /\ pc[p] \in {"idle", "done", "for_port"} => SocketsOf(p) = {}

C14_Witness ==
    \E p \in Procs :
        /\ pc[p] = "done"
        /\ ffp[p].raised # << >>
        /\ Len(ffp[p].tested) = 3
        /\ SocketsOf(p) = {}

(***************************************************************************)
(* C15: whatever text the generation service returned, the build           *)
(* definition written from it holds no three consecutive backquotes, also  *)
(* when the removal of a language-tagged fence has brought the backquotes  *)
(* on its two sides together.                                              *)
(***************************************************************************)
HasFence(text) == \E i \in 1 .. (Len(text) - 2) : SubSeq(text, i, i + 2) = Fence

C15_NoFenceInBuildDefinition ==
    \A p \in Procs :
        pc[p] = "generated" =>
            /\ dockerfile_file.exists
            /\ ~HasFence(dockerfile_file.content)

C15_Witness ==
    \E p \in Procs :
        /\ pc[p] = "generated"
        /\ response[p] = << Backquote, Backquote >> \o FenceDockerfile \o << Backquote >>
        /\ HasFence(Remove(response[p], FenceDockerfile))
        /\ dockerfile_file = File(<< >>)

(***************************************************************************)
(* C16: every call of ensure_entrypoint that raises nothing leaves the     *)
(* entrypoint on disk, non-empty and holding exactly the fixed script,     *)
(* whatever the file held before; so a second call after a successful one  *)
(* leaves the file as it found it.                                         *)
(***************************************************************************)
EntrypointCallSucceeds(p) ==
    /\ pc[p] = "ensure_entrypoint"
    /\ pc'[p] # "ensure_entrypoint"
    /\ fault'[p] = fault[p]

C16_EntrypointIdempotent ==
    [][\A p \in Procs :
          EntrypointCallSucceeds(p) =>
              /\ entrypoint_file'.exists
              /\ getsize(entrypoint_file') > 0
              /\ entrypoint_file' = File(entrypoint_content)
              /\ (fault[p] = << >> /\ runs[p] > 1) => entrypoint_file' = entrypoint_file]_vars

C16_Witness ==
    \E p \in Procs :
        /\ pc[p] = "get_project_context"
        /\ runs[p] = 2
        /\ calls[p]["write_entrypoint"] = 2
        /\ fault[p] = << >>
        /\ entrypoint_file = File(entrypoint_content)

(***************************************************************************)
(* C17: a build stream without an error event never makes the build stage  *)
(* fail.  An event that is no error event (a progress event or an event of *)
(* an unknown shape) leaves the run in the loop with no result and no      *)
(* error; at the end of such a stream the run goes to the image check,     *)
(* having printed the warning exactly when no progress event was seen (an  *)
(* empty stream included); and the image check, when the image exists,     *)
(* ends the stage without an error and the run goes on to the cleanup.     *)
(***************************************************************************)
ConsumesChunk(p) == pc[p] = "build_generator" /\ pos'[p] = pos[p] + 1

LeavesStream(p) == pc[p] = "build_generator" /\ pc'[p] # "build_generator"

ChecksImage(p) == pc[p] = "images_get" /\ pc'[p] # "images_get"

C17_ErrorFreeStreamNeverFails ==
    [][\A p \in Procs :
          /\ (ConsumesChunk(p) /\ ChunkKind(stream[p][pos[p] + 1]) # "error") =>
                /\ pc'[p] = "build_generator"
                /\ result'[p] = << >>
                /\ fault'[p] = fault[p]
          /\ (LeavesStream(p) /\ ~HasError(stream[p])) =>
                /\ pos[p] = Len(stream[p])
                /\ pc'[p] = "images_get"
                /\ result'[p] = << >>
                /\ fault'[p] = fault[p]
                /\ calls'[p]["print_warning"] = IF build_success[p] THEN 0 ELSE 1
          /\ (ChecksImage(p) /\ image) =>
                /\ pc'[p] = "containers_get"
                /\ result'[p] = << >>
                /\ fault'[p] = fault[p]]_vars

C17_Witness ==
    \E p \in Procs :
        /\ pc[p] = "containers_get"
        /\ ~build_success[p]
        /\ calls[p]["print_warning"] = 1
        /\ calls[p]["images_get"] = 1
        /\ FaultsIn(p, "BuildImage") = {}
        /\ image

(***************************************************************************)
(* C18: once the scan of a tree that holds a recognized file which cannot  *)
(* be read has run, the scan has returned and the run has gone on to the   *)
(* next stage, no stage has failed on its account, that file is not in the *)
(* bundle and every recognized file that can be read is.  The code skips   *)
(* the unreadable file and goes on, but it also drops the readable files   *)
(* shorter than 50 lines (C2): TLC finds this violated.                    *)
(***************************************************************************)
UnreadableCritical(files) ==
    SelectSeq(files, LAMBDA f : f.name \in critical_files /\ ~f.readable)

InBundle(p) == {context[p][k].file : k \in DOMAIN context[p]}

ScanReturned(p) ==
    /\ pc[p] # "get_project_context"
    /\ FaultsIn(p, "ScanContext") = {}
    /\ calls[p]["llm_invoke"] = 0 => pc[p] = "generate_dockerfile"

C18_ReadFailureSkipsOneFile ==
    \A p \in Procs :
        (calls[p]["os_walk"] > 0 /\ UnreadableCritical(tree) # << >>) =>
            /\ ScanReturned(p)
            /\ \A k \in DOMAIN UnreadableCritical(tree) :
                 UnreadableCritical(tree)[k].name \notin InBundle(p)
            /\ \A k \in DOMAIN ReadableCritical(tree) :
                 ReadableCritical(tree)[k].name \in InBundle(p)

(***************************************************************************)
(* C19: in every run, every tag and name handed to the engine (the tag of  *)
(* the build, the tag of the image check, the name of the container looked *)
(* up, the image and the name of the container launched) is one and the    *)
(* same string, the lowercased project name; each operation that was       *)
(* performed used it, and the container the run launched bears it.         *)
(***************************************************************************)
TagOpOf ==
    [op \in TagOps |->
        CASE op = "build_tag" -> "api_build"
          [] op = "images_get" -> "images_get"
          [] op = "containers_get" -> "containers_get"
          [] op = "run_image" -> "containers_run"
          [] op = "run_name" -> "containers_run"]

C19_OneIdentityPerRun ==
    \A p \in Procs :
        /\ \A op \in TagOps :
             /\ used[p][op] \subseteq {lower(project_name)}
             /\ calls[p][TagOpOf[op]] > 0 => used[p][op] = {lower(project_name)}
        /\ Cardinality(UNION {used[p][op] : op \in TagOps}) <= 1
        /\ \A c \in LaunchedBy(p) : c.name = lower(project_name)

C19_Witness ==
    \E p \in Procs :
        /\ pc[p] = "done"
        /\ IsSuccess(result[p])
        /\ project_name # lower(project_name)
        /\ \A op \in TagOps : used[p][op] = {"myapp"}
        /\ \E c \in LaunchedBy(p) : c.name = "myapp"

(***************************************************************************)
(* C20: while two runs on the same project overlap, their engine           *)
(* operations interleaved in any order, at most one container bearing the  *)
(* project's identity exists in every state (here: in every state in which *)
(* no stop or remove of either run has raised).  Both runs can look the    *)
(* name up before either launches, and both then launch: TLC finds this    *)
(* violated with an engine that does not refuse the name.                  *)
(***************************************************************************)
StopRaised(p) ==
    calls[p]["stop"] = 1 /\ calls[p]["remove"] = 0 /\ pc[p] \in {"containers_run", "done"}

RemoveRaised(p) ==
    calls[p]["remove"] = 1 /\ \E c \in containers : c.id \in old[p]

C20_AtMostOneWhileConcurrent ==
    (\A p \in Procs : ~StopRaised(p) /\ ~RemoveRaised(p)) =>
        Cardinality(Named(containers, image_tag)) <= 1

(***************************************************************************)
(* C21: when every external call returns or fails and the engine closes    *)
(* every build stream, every run that has started reaches its result;      *)
(* without the engine's word on the stream a run that never ends waits in  *)
(* the loop over the build stream and nowhere else; and a run that has     *)
(* returned does nothing more: its result, its calls and its stages stay   *)
(* as they are, and the engine and the disk are not touched by it, until   *)
(* the caller starts the next run.                                         *)
(***************************************************************************)
Running(p) == pc[p] \notin {"idle", "done"}

StaysReturned(p) ==
    pc[p] = "done" =>
        \/ /\ pc'[p] = "done"
           /\ result'[p] = result[p]
           /\ calls'[p] = calls[p]
           /\ hist'[p] = hist[p]
           /\ runs'[p] = runs[p]
        \/ /\ pc'[p] = "ensure_entrypoint"
           /\ runs'[p] = runs[p] + 1
           /\ UNCHANGED shared

C21_EveryRunTerminates ==
    /\ StreamEnds => \A p \in Procs : Running(p) ~> (pc[p] = "done")
    /\ \A p \in Procs : Running(p) ~> (pc[p] \in {"done", "build_generator"})
    /\ [][\A p \in Procs : StaysReturned(p)]_vars

C21_Witness ==
    \E p \in Procs :
        /\ pc[p] = "done"
        /\ runs[p] = 2
        /\ calls[p]["api_build"] = 1
        /\ build_success[p]
        /\ IsSuccess(result[p])

(***************************************************************************)
(* C22: in every run the container of the identity is looked up, stopped,  *)
(* removed or replaced only after the build stream has ended without       *)
(* error and the image check has succeeded, and a run in which the         *)
(* entrypoint, the generation, the build or the image check has failed     *)
(* has performed none of these operations, so that the containers are as   *)
(* the run found them.  A failed entrypoint write does not end the run     *)
(* (C1), which goes on to build and to replace the container: TLC finds    *)
(* this violated.                                                          *)
(***************************************************************************)
EarlyStages == {"WriteEntrypoint", "WriteBuildDefinition", "BuildImage"}

FailedEarly(p) == \E stage \in EarlyStages : FaultsIn(p, stage) # {}

TouchedContainers(p) == \E c \in ContainerCalls : calls[p][c] > 0

C22_CleanupOnlyAfterVerifiedBuild ==
    \A p \in Procs :
        /\ TouchedContainers(p) =>
              /\ calls[p]["api_build"] = 1
              /\ calls[p]["images_get"] = 1
              /\ pc[p] \notin {"build_generator", "images_get"}
              /\ FaultsIn(p, "BuildImage") = {}
        /\ FailedEarly(p) =>
              /\ ~TouchedContainers(p)
              /\ LaunchedBy(p) = {}

(***************************************************************************)
(* C23: in run_devops_pipeline the Dockerfile is written only for a        *)
(* recognized project type, the build is attempted only once the           *)
(* Dockerfile has been written, and the workflow file is written only once *)
(* the build has succeeded; when the type is not recognized, or the build  *)
(* has raised, the function has returned without raising, no later step    *)
(* was performed and no later file was written.                            *)
(***************************************************************************)
Recognized(files) == files \cap {"app.py", "requirements.txt", "package.json"} # {}

Performed(name) == \E i \in DOMAIN auto.steps : auto.steps[i] = name

C23_StepsAreGated ==
    /\ Performed("write_dockerfile") => Recognized(auto.files)
    /\ Performed("build") =>
          /\ auto.steps[1] = "write_dockerfile"
          /\ auto.dockerfile = File(auto.dockerfile_content)
          /\ auto.dockerfile_content # ErrorText
    /\ Performed("write_workflow") =>
          /\ auto.built
          /\ SubSeq(auto.steps, 1, 2) = << "write_dockerfile", "build" >>
    /\ auto.workflow.exists => auto.built
    /\ (auto.pc # "listdir" /\ ~Recognized(auto.files)) =>
          /\ auto.pc = "returned"
          /\ auto.raised = << >>
          /\ auto.steps = << >>
          /\ ~auto.built /\ ~auto.workflow.exists
    /\ auto.build_raised =>
          /\ auto.pc = "returned"
          /\ auto.raised = << >>
          /\ auto.steps = << "write_dockerfile", "build" >>
          /\ ~auto.built /\ ~auto.workflow.exists

C23_Witness ==
    /\ auto.pc = "returned"
    /\ auto.files = {"package.json", "README.md"}
    /\ auto.dockerfile = File(NodeDockerfile)
    /\ auto.build_raised
    /\ ~auto.workflow.exists

====
